---- MODULE Spec2Model ----
(***************************************************************************)
(* A model of the tree-walking evaluator of interpreter/ast.py.            *)
(*                                                                         *)
(* An AST node is a record with a `kind` field (the node's class) and the  *)
(* fields its constructor stores.  A runtime value is a record with a `t`  *)
(* field (the Python type).  `eval` methods are operators N_eval(n, m)     *)
(* that take the node and the machine state m and return the result and    *)
(* the machine state after the call: [res |-> ..., m |-> ...].  A raised   *)
(* Python exception is the result [t |-> "exc", v |-> <class name>].       *)
(*                                                                         *)
(* The machine state m is                                                  *)
(*   table : the module-level `symbols` object (the Scope Store),          *)
(*   heap  : the list objects allocated so far (a list value is a          *)
(*           reference REF(a) to heap[a], so that aliasing is visible),    *)
(*   out   : the text written to standard output,                          *)
(*   depth : the number of Function.eval frames on the Python stack,       *)
(*   trace : observations of table.is_local made inside Function.eval.     *)
(***************************************************************************)
EXTENDS Integers, Sequences, FiniteSets, TLC

(***************************************************************************)
(* Bounds of the checked inputs.                                           *)
(***************************************************************************)
MaxInt == 2
MaxParams == 2
MaxLen == 3

(***************************************************************************)
(* Runtime values.                                                         *)
(***************************************************************************)
INT(n) == [t |-> "int", v |-> n]
BOOL(b) == [t |-> "bool", v |-> b]
STR(s) == [t |-> "str", v |-> s]
FLOAT(n, d) == [t |-> "float", n |-> n, d |-> d]
NONE == [t |-> "None"]
REF(a) == [t |-> "list", a |-> a]
\* a value that is itself a node (an ExitStatement, a Function)
NODE(n) == [t |-> "node", node |-> n]
\* the arguments a call has collected: a dict or list local to the method,
\* never a value of the program
ARGS(s) == [t |-> "args", v |-> s]
EXC(k) == [t |-> "exc", v |-> k]

R(res, m) == [res |-> res, m |-> m]
IsExc(v) == v.t = "exc"

(***************************************************************************)
(* AST nodes.                                                              *)
(***************************************************************************)
InstructionList(children) == [kind |-> "InstructionList", children |-> children]
ExitStatement == [kind |-> "ExitStatement"]
ReturnStatement(expr) == [kind |-> "ReturnStatement", expr |-> expr]
Primitive(value) == [kind |-> "Primitive", value |-> value]
Array(values) == [kind |-> "Array", values |-> values]
Identifier(name) == [kind |-> "Identifier", name |-> name, is_function |-> FALSE]
FuncIdentifier(name) == [kind |-> "Identifier", name |-> name, is_function |-> TRUE]
ArrayAccess(array, index) == [kind |-> "ArrayAccess", array |-> array, index |-> index]
ArrayAssign(array, index, value) == [kind |-> "ArrayAssign", array |-> array, index |-> index, value |-> value]
Assignment(identifier, val) == [kind |-> "Assignment", identifier |-> identifier, val |-> val]
BinaryOperation(left, right, op) == [kind |-> "BinaryOperation", left |-> left, right |-> right, op |-> op]
CompoundOperation(identifier, modifier, operation) == [kind |-> "CompoundOperation", identifier |-> identifier, modifier |-> modifier, operation |-> operation]
UnaryOperation(operation, expr) == [kind |-> "UnaryOperation", operation |-> operation, expr |-> expr]
NoElse == [kind |-> "NoneType"]
If(condition, truepart, elsepart) == [kind |-> "If", condition |-> condition, truepart |-> truepart, elsepart |-> elsepart]
For(variable, start, end, asc, body) == [kind |-> "For", variable |-> variable, start |-> start, end |-> end, asc |-> asc, body |-> body]
While(condition, body) == [kind |-> "While", condition |-> condition, body |-> body]
PrintStatement(items) == [kind |-> "PrintStatement", items |-> items]
FunctionCall(name, params) == [kind |-> "FunctionCall", name |-> name, params |-> params]
Function(params, body) == [kind |-> "Function", params |-> params, body |-> body]
\* func names the host callable the node wraps
BuiltInFunction(func) == [kind |-> "BuiltInFunction", func |-> func]

\* isinstance(n, ExitStatement): ReturnStatement is a subclass
IsExitNode(n) == n.kind \in {"ExitStatement", "ReturnStatement"}
\* isinstance(v, ExitStatement) for a result
IsExit(v) == v.t = "node" /\ IsExitNode(v.node)
\* isinstance(n, BaseExpression): every node class but InstructionList
IsBaseExpression(n) == n.kind \notin {"InstructionList", "NoneType"}

(***************************************************************************)
(* The Scope Store (interpreter/symbol_table.py).                          *)
(***************************************************************************)
Put(f, k, v) == [x \in (DOMAIN f) \cup {k} |-> IF x = k THEN v ELSE f[x]]

EmptyTable == [sym |-> <<>>, loc |-> <<>>, fun |-> <<>>, lfun |-> <<>>, is_local |-> FALSE]

set_local(tb, flag) == [tb EXCEPT !.is_local = flag]

getsym(tb, name) ==
    IF tb.is_local /\ name \in DOMAIN tb.loc THEN tb.loc[name]
    ELSE IF name \in DOMAIN tb.sym THEN tb.sym[name]
    ELSE EXC("UndefinedSymbol")

setsym(tb, name, val) ==
    IF tb.is_local THEN [tb EXCEPT !.loc = Put(@, name, val)]
    ELSE [tb EXCEPT !.sym = Put(@, name, val)]

getfunc(tb, name) ==
    IF tb.is_local /\ name \in DOMAIN tb.lfun THEN tb.lfun[name]
    ELSE IF name \in DOMAIN tb.fun THEN tb.fun[name]
    ELSE EXC("UndefinedSymbol")

setfunc(tb, name, val) ==
    IF tb.is_local THEN [tb EXCEPT !.lfun = Put(@, name, val)]
    ELSE [tb EXCEPT !.fun = Put(@, name, val)]

(***************************************************************************)
(* Python's operators on the values of the model.                          *)
(***************************************************************************)
IsNum(v) == v.t \in {"int", "bool"}
NumVal(v) == IF v.t = "bool" THEN (IF v.v THEN 1 ELSE 0) ELSE v.v
Abs(n) == IF n < 0 THEN -n ELSE n

RECURSIVE Gcd(_, _)
Gcd(a, b) == IF b = 0 THEN a ELSE Gcd(b, a % b)

\* the float n/d, in lowest terms with a positive denominator
MkFloat(n, d) ==
    LET g == Gcd(Abs(n), Abs(d))
        s == IF d < 0 THEN -1 ELSE 1
    IN FLOAT((s * n) \div g, (s * d) \div g)

RECURSIVE Pow(_, _)
Pow(a, b) == IF b = 0 THEN 1 ELSE a * Pow(a, b - 1)

\* Python's %: the result has the sign of the divisor
PyMod(a, b) == IF b > 0 THEN a % b ELSE -((-a) % (-b))

\* int & int and int | int on two's complement integers of any size
RECURSIVE BitAnd(_, _)
BitAnd(a, b) ==
    IF a = 0 \/ b = 0 THEN 0
    ELSE IF a = -1 THEN b
    ELSE IF b = -1 THEN a
    ELSE ((a % 2) * (b % 2)) + 2 * BitAnd(a \div 2, b \div 2)

BitOr(a, b) == a + b - BitAnd(a, b)

\* a new list object holding items
NewList(items, m) == R(REF(Len(m.heap) + 1), [m EXCEPT !.heap = Append(@, items)])

\* bool(v)
Truthy(v, heap) ==
    CASE v.t = "int" -> v.v # 0
      [] v.t = "bool" -> v.v
      [] v.t = "float" -> v.n # 0
      [] v.t = "str" -> v.v # ""
      [] v.t = "None" -> FALSE
      [] v.t = "list" -> heap[v.a] # <<>>
      [] v.t = "node" -> TRUE

\* the printable ASCII characters a TLA+ string can hold, in code order, and
\* the place of c among them
Ascii == " !\"#$%&'()*+,-./0123456789:;<=>?@ABCDEFGHIJKLMNOPQRSTUVWXYZ[\\]^_abcdefghijklmnopqrstuvwxyz{|}~"
Code(c) == CHOOSE i \in 1..Len(Ascii) : SubSeq(Ascii, i, i) = c
Contains(s, c) == \E i \in 1..Len(s) : SubSeq(s, i, i) = c

\* str(v), as print writes it
RECURSIVE Digits(_)
Digits(n) ==
    LET d == <<"0", "1", "2", "3", "4", "5", "6", "7", "8", "9">>[(n % 10) + 1]
    IN IF n < 10 THEN d ELSE Digits(n \div 10) \o d

ToText(v) ==
    CASE v.t = "int" -> IF v.v < 0 THEN "-" \o Digits(-v.v) ELSE Digits(v.v)
      [] v.t = "bool" -> IF v.v THEN "True" ELSE "False"
      [] v.t = "str" -> v.v
      [] v.t = "None" -> "None"

\* repr(s) of a str of printable characters without a backslash
StrRepr(s) ==
    CASE (\A i \in 1..Len(s) : Contains(Ascii, SubSeq(s, i, i))) /\ ~Contains(s, "\\") /\ ~Contains(s, "'") ->
            "'" \o s \o "'"
      [] (\A i \in 1..Len(s) : Contains(Ascii, SubSeq(s, i, i))) /\ ~Contains(s, "\\") /\ Contains(s, "'")
           /\ ~Contains(s, "\"") ->
            "\"" \o s \o "\""

\* repr(v) of the elements of a list, str(v) of a list; a list met inside
\* itself (its address is in `seen`) is written [...]
RECURSIVE ListText(_, _, _)
ItemText(v, heap, seen) ==
    CASE v.t \in {"int", "bool", "None"} -> ToText(v)
      [] v.t = "str" -> StrRepr(v.v)
      [] v.t = "list" /\ v.a \in seen -> "[...]"
      [] v.t = "list" /\ v.a \notin seen -> "[" \o ListText(heap[v.a], heap, seen \cup {v.a}) \o "]"

ListText(items, heap, seen) ==
    IF items = <<>> THEN ""
    ELSE IF Len(items) = 1 THEN ItemText(items[1], heap, seen)
    ELSE ItemText(Head(items), heap, seen) \o ", " \o ListText(Tail(items), heap, seen)

\* str(v), lists included
StrOf(v, heap) == IF v.t = "list" THEN ItemText(v, heap, {}) ELSE ToText(v)

RECURSIVE Repeat(_, _)
Repeat(s, n) == IF n <= 0 THEN "" ELSE s \o Repeat(s, n - 1)

\* the characters of a str, as the items a list is extended with
Chars(s) == [i \in 1..Len(s) |-> STR(SubSeq(s, i, i))]

\* items * n
RECURSIVE RepeatItems(_, _)
RepeatItems(items, n) == IF n <= 0 THEN <<>> ELSE items \o RepeatItems(items, n - 1)

ArithOps == {"+", "-", "*", "**", "/", "%"}
OrderOps == {">", ">=", "<", "<="}
EqOps == {"==", "!="}
LogicOps == {"and", "or"}

\* the numeric tower on int and bool operands (bool is an int)
NumArith(op, l, r) ==
    LET a == NumVal(l)
        b == NumVal(r)
    IN CASE op = "+" -> INT(a + b)
         [] op = "-" -> INT(a - b)
         [] op = "*" -> INT(a * b)
         [] op = "/" -> IF b = 0 THEN EXC("ZeroDivisionError") ELSE MkFloat(a, b)
         [] op = "%" -> IF b = 0 THEN EXC("ZeroDivisionError") ELSE INT(PyMod(a, b))
         [] op = "**" ->
              IF b >= 0 THEN INT(Pow(a, b))
              ELSE IF a = 0 THEN EXC("ZeroDivisionError")
              ELSE MkFloat(1, Pow(a, -b))

\* the value of a number as the fraction <<n, d>>
Frac(v) == IF v.t = "float" THEN <<v.n, v.d>> ELSE <<NumVal(v), 1>>

NumOrder(op, l, r) ==
    LET x == Frac(l)[1] * Frac(r)[2]
        y == Frac(r)[1] * Frac(l)[2]
    IN CASE op = ">" -> BOOL(x > y)
         [] op = ">=" -> BOOL(x >= y)
         [] op = "<" -> BOOL(x < y)
         [] op = "<=" -> BOOL(x <= y)

IsNumF(v) == v.t \in {"int", "bool", "float"}

\* l == r.  Lists are equal when they are the same object or have equal
\* items; two nodes are compared by identity, which the model does not
\* record.
RECURSIVE PyEq(_, _, _)
ListEq(xs, ys, heap) == Len(xs) = Len(ys) /\ \A i \in 1..Len(xs) : PyEq(xs[i], ys[i], heap)

PyEq(l, r, heap) ==
    CASE IsNumF(l) /\ IsNumF(r) -> Frac(l)[1] * Frac(r)[2] = Frac(r)[1] * Frac(l)[2]
      [] l.t = "str" /\ r.t = "str" -> l.v = r.v
      [] l.t = "None" /\ r.t = "None" -> TRUE
      [] l.t = "list" /\ r.t = "list" -> l.a = r.a \/ ListEq(heap[l.a], heap[r.a], heap)
      [] l.t # r.t /\ ~(IsNumF(l) /\ IsNumF(r)) -> FALSE

\* the order of two strs: that of the first characters that differ, or of
\* the lengths
RECURSIVE StrOrder(_, _, _, _)
StrOrder(op, a, b, i) ==
    IF i > Len(a) \/ i > Len(b) THEN NumOrder(op, INT(Len(a)), INT(Len(b)))
    ELSE IF SubSeq(a, i, i) = SubSeq(b, i, i) THEN StrOrder(op, a, b, i + 1)
    ELSE NumOrder(op, INT(Code(SubSeq(a, i, i))), INT(Code(SubSeq(b, i, i))))

\* operator.eq, .ne, .gt, .ge, .lt, .le; two lists are ordered by the first
\* items that differ, or by their lengths
RECURSIVE Compare(_, _, _, _)
RECURSIVE ListOrder(_, _, _, _, _)
ListOrder(op, xs, ys, i, heap) ==
    IF i > Len(xs) \/ i > Len(ys) THEN NumOrder(op, INT(Len(xs)), INT(Len(ys)))
    ELSE IF PyEq(xs[i], ys[i], heap) THEN ListOrder(op, xs, ys, i + 1, heap)
    ELSE Compare(op, xs[i], ys[i], heap)

Compare(op, l, r, heap) ==
    CASE op \in EqOps -> BOOL(IF op = "==" THEN PyEq(l, r, heap) ELSE ~PyEq(l, r, heap))
      [] op \in OrderOps /\ IsNumF(l) /\ IsNumF(r) -> NumOrder(op, l, r)
      [] op \in OrderOps /\ l.t = "str" /\ r.t = "str" -> StrOrder(op, l.v, r.v, 1)
      [] op \in OrderOps /\ l.t = "list" /\ r.t = "list" -> ListOrder(op, heap[l.a], heap[r.a], 1, heap)
      [] op \in OrderOps /\ ~(IsNumF(l) /\ IsNumF(r)) /\ ~(l.t = r.t /\ l.t \in {"str", "list"}) ->
            EXC("TypeError")

\* int(x) of a float, towards zero
Trunc(v) == IF v.n >= 0 THEN v.n \div v.d ELSE -((-v.n) \div v.d)

\* operator.mod with a str on the left is printf-style formatting of the one
\* value arg (the model has no tuples): the conversions %s, %d, %i, %u and
\* the literal %% from position i on, `used` once arg has been consumed.
\* A list is accepted as a mapping, so it may stay unconsumed.
RECURSIVE Format(_, _, _, _, _, _)
Format_conv(s, i, k, arg, used, acc, heap) ==
    CASE k = "%" -> Format(s, i + 2, arg, used, acc \o "%", heap)
      [] k = "s" ->
            IF used THEN EXC("TypeError")
            ELSE Format(s, i + 2, arg, TRUE, acc \o StrOf(arg, heap), heap)
      [] k \in {"d", "i", "u"} ->
            IF used THEN EXC("TypeError")
            ELSE IF IsNum(arg) THEN Format(s, i + 2, arg, TRUE, acc \o ToText(INT(NumVal(arg))), heap)
            ELSE IF arg.t = "float" THEN Format(s, i + 2, arg, TRUE, acc \o ToText(INT(Trunc(arg))), heap)
            ELSE EXC("TypeError")

Format(s, i, arg, used, acc, heap) ==
    IF i > Len(s)
    THEN (IF ~used /\ arg.t # "list" THEN EXC("TypeError") ELSE STR(acc))
    ELSE IF SubSeq(s, i, i) # "%" THEN Format(s, i + 1, arg, used, acc \o SubSeq(s, i, i), heap)
    ELSE IF i = Len(s) THEN EXC("ValueError")
    ELSE Format_conv(s, i, SubSeq(s, i + 1, i + 1), arg, used, acc, heap)

\* operator.add, .sub, .mul, .pow, .truediv, .mod, .and_, .or_ where the
\* result is not a new list; EXC("TypeError") where Python raises TypeError.
\* Arithmetic with a float operand is rounded by the hardware and has no
\* value here.
Arith(op, l, r, heap) ==
    CASE op \in ArithOps /\ IsNum(l) /\ IsNum(r) -> NumArith(op, l, r)
      [] op = "%" /\ l.t = "str" -> Format(l.v, 1, r, FALSE, "", heap)
      [] op = "+" /\ l.t = "str" /\ r.t = "str" -> STR(l.v \o r.v)
      [] op = "*" /\ l.t = "str" /\ IsNum(r) -> STR(Repeat(l.v, NumVal(r)))
      [] op = "*" /\ IsNum(l) /\ r.t = "str" -> STR(Repeat(r.v, NumVal(l)))
      [] op \in ArithOps /\ ~(IsNumF(l) /\ IsNumF(r)) /\ ~(op = "%" /\ l.t = "str")
           /\ ~(op = "+" /\ l.t = "str" /\ r.t = "str")
           /\ ~(op = "*" /\ ((l.t = "str" /\ IsNum(r)) \/ (IsNum(l) /\ r.t = "str"))) ->
            EXC("TypeError")
      [] op \in LogicOps /\ l.t = "bool" /\ r.t = "bool" ->
              BOOL(IF op = "and" THEN l.v /\ r.v ELSE l.v \/ r.v)
      [] op \in LogicOps /\ IsNum(l) /\ IsNum(r) /\ ~(l.t = "bool" /\ r.t = "bool") ->
              INT(IF op = "and" THEN BitAnd(NumVal(l), NumVal(r)) ELSE BitOr(NumVal(l), NumVal(r)))
      [] op \in LogicOps /\ ~(IsNum(l) /\ IsNum(r)) -> EXC("TypeError")

\* the function BinaryOperation.__operations binds to op, applied to (l, r):
\* list + list and list * int make a new list
Operate(op, l, r, m) ==
    CASE op \in EqOps \cup OrderOps -> R(Compare(op, l, r, m.heap), m)
      [] op = "+" /\ l.t = "list" /\ r.t = "list" -> NewList(m.heap[l.a] \o m.heap[r.a], m)
      [] op = "*" /\ l.t = "list" /\ IsNum(r) -> NewList(RepeatItems(m.heap[l.a], NumVal(r)), m)
      [] op = "*" /\ IsNum(l) /\ r.t = "list" -> NewList(RepeatItems(m.heap[r.a], NumVal(l)), m)
      [] op \notin EqOps \cup OrderOps
           /\ ~(op = "+" /\ l.t = "list" /\ r.t = "list")
           /\ ~(op = "*" /\ ((l.t = "list" /\ IsNum(r)) \/ (IsNum(l) /\ r.t = "list"))) ->
            R(Arith(op, l, r, m.heap), m)

\* the Python object in a field of a node: another node, or None
Object(n) == IF n.kind = "NoneType" THEN NONE ELSE NODE(n)

\* the binary operator an in-place operator falls back to
BinaryOf(operation) ==
    CASE operation = "+=" -> "+"
      [] operation = "-=" -> "-"
      [] operation = "/=" -> "/"
      [] operation = "*=" -> "*"
      [] operation = "%=" -> "%"
      [] operation = "**=" -> "**"

\* the items iterating over v gives, for the values that can be iterated
Iterable(v) == v.t \in {"list", "str"} \/ (v.t = "node" /\ v.node.kind = "InstructionList")
Items(v, heap) ==
    CASE v.t = "list" -> heap[v.a]
      [] v.t = "str" -> Chars(v.v)
      [] v.t = "node" -> [i \in 1..Len(v.node.children) |-> Object(v.node.children[i])]

\* the function CompoundOperation.__operations binds to operation (operator.iadd,
\* .isub, ...) applied to (l, r): a list is extended or repeated in place
\* and is itself the result, the other values have no in-place operators
OperateInplace(operation, l, r, m) ==
    CASE operation = "+=" /\ l.t = "list" ->
            IF Iterable(r) THEN R(l, [m EXCEPT !.heap[l.a] = @ \o Items(r, m.heap)])
            ELSE R(EXC("TypeError"), m)
      [] operation = "*=" /\ l.t = "list" ->
            IF IsNum(r) THEN R(l, [m EXCEPT !.heap[l.a] = RepeatItems(@, NumVal(r))])
            ELSE R(EXC("TypeError"), m)
      [] ~(operation \in {"+=", "*="} /\ l.t = "list") -> Operate(BinaryOf(operation), l, r, m)

\* operator.pos, .neg, .not_ of UnaryOperation.__operations
OperateUnary(op, v, heap) ==
    CASE op = "not" -> BOOL(~Truthy(v, heap))
      [] op = "-" /\ IsNum(v) -> INT(-NumVal(v))
      [] op = "+" /\ IsNum(v) -> INT(NumVal(v))
      [] op = "-" /\ v.t = "float" -> FLOAT(-v.n, v.d)
      [] op = "+" /\ v.t = "float" -> v
      [] op \in {"-", "+"} /\ ~IsNumF(v) -> EXC("TypeError")

(***************************************************************************)
(* The evaluator.                                                          *)
(***************************************************************************)
RECURSIVE Eval(_, _)
RECURSIVE InstructionList_loop(_, _, _, _)
RECURSIVE full_eval(_, _)
RECURSIVE For_loop(_, _, _, _, _)
RECURSIVE While_eval(_, _)
RECURSIVE eval_udf_args(_, _, _, _, _)
RECURSIVE eval_builtin_args(_, _, _, _)

\* the rest K of a method after a call that returned r: an exception raised
\* by the call propagates
Then(r, K(_)) == IF IsExc(r.res) THEN r ELSE K(r)

\* an observation of the scope mode, made inside a Function.eval frame
Log(m, ev) ==
    IF m.depth = 0 THEN m
    ELSE [m EXCEPT !.trace = Append(@, [ev |-> ev, depth |-> m.depth, local |-> m.table.is_local])]

\* InstructionList_collect without the test of line 34: a result that is an
\* ExitStatement is collected like any other
InstructionList_collect_keepsExit(acc, r) ==
    IF IsExc(r.res) THEN [stop |-> TRUE, res |-> r.res, m |-> r.m]
    ELSE IF r.res.t = "None" THEN [stop |-> FALSE, res |-> acc, m |-> r.m]
    ELSE [stop |-> FALSE, res |-> Append(acc, r.res), m |-> r.m]

\* lines 34-37: the result r of n.eval() is returned if it is an
\* ExitStatement, and appended to ret unless it is None
InstructionList_collect(acc, r) ==
    IF IsExc(r.res) \/ IsExit(r.res) THEN [stop |-> TRUE, res |-> r.res, m |-> r.m]
    ELSE IF r.res.t = "None" THEN [stop |-> FALSE, res |-> acc, m |-> r.m]
    ELSE [stop |-> FALSE, res |-> Append(acc, r.res), m |-> r.m]

\* one iteration of the loop of InstructionList.eval, on member n with the
\* results `acc` collected so far: stop = TRUE when the method returns here
InstructionList_step(n, acc, m) ==
    IF IsExitNode(n) THEN [stop |-> TRUE, res |-> NODE(n), m |-> m]
    ELSE IF n.kind = "NoneType" THEN [stop |-> TRUE, res |-> EXC("AttributeError"), m |-> m]
    ELSE InstructionList_collect(acc, Eval(n, Log(m, "member")))

InstructionList_next(children, i, s) ==
    IF s.stop THEN R(s.res, s.m)
    ELSE InstructionList_loop(children, i + 1, s.res, s.m)

InstructionList_loop(children, i, acc, m) ==
    IF i > Len(children) THEN NewList(acc, m)
    ELSE InstructionList_next(children, i, InstructionList_step(children[i], acc, m))

InstructionList_eval(n, m) == InstructionList_loop(n.children, 1, <<>>, m)

ExitStatement_eval(n, m) == R(NONE, m)

ReturnStatement_eval(n, m) == full_eval(n.expr, m)

\* expr = expr.eval(), then the test of the loop again: the result is a
\* node or a plain value
full_eval_again(r) ==
    IF IsExc(r.res) THEN r
    ELSE IF r.res.t = "node" THEN full_eval(r.res.node, r.m)
    ELSE r

\* while isinstance(expr, BaseExpression): expr = expr.eval()
\* an expr that is no BaseExpression (an InstructionList, None) is returned
\* as it is
full_eval(expr, m) ==
    IF IsBaseExpression(expr) THEN full_eval_again(Eval(expr, m))
    ELSE R(Object(expr), m)

Primitive_eval(n, m) == R(n.value, m)

\* return self.values.eval(): the list InstructionList.eval built
Array_eval(n, m) == InstructionList_eval(n.values, m)

Identifier_eval(n, m) ==
    IF n.is_function THEN R(getfunc(m.table, n.name), m)
    ELSE R(getsym(m.table, n.name), m)

Identifier_assign(n, val, m) ==
    IF n.is_function THEN [m EXCEPT !.table = setfunc(@, n.name, val)]
    ELSE [m EXCEPT !.table = setsym(@, n.name, val)]

\* list.__getitem__ / list.__setitem__ index handling
IsIndex(i) == i.t \in {"int", "bool"}
InRange(i, len) == -len <= NumVal(i) /\ NumVal(i) < len
Slot(i, len) == IF NumVal(i) < 0 THEN NumVal(i) + len + 1 ELSE NumVal(i) + 1

\* a[i]
Subscript(a, i, hp) ==
    CASE a.t = "list" /\ IsIndex(i) ->
            IF InRange(i, Len(hp[a.a])) THEN hp[a.a][Slot(i, Len(hp[a.a]))]
            ELSE EXC("IndexError")
      [] a.t = "list" /\ ~IsIndex(i) -> EXC("TypeError")
      [] a.t = "str" /\ IsIndex(i) ->
            IF InRange(i, Len(a.v)) THEN STR(SubSeq(a.v, Slot(i, Len(a.v)), Slot(i, Len(a.v))))
            ELSE EXC("IndexError")
      [] a.t = "str" /\ ~IsIndex(i) -> EXC("TypeError")
      [] a.t \in {"int", "bool", "float", "None", "node"} -> EXC("TypeError")

\* a[i] = v
StoreSubscript(a, i, v, m) ==
    CASE a.t = "list" /\ IsIndex(i) ->
            IF InRange(i, Len(m.heap[a.a]))
            THEN R(NONE, [m EXCEPT !.heap[a.a][Slot(i, Len(m.heap[a.a]))] = v])
            ELSE R(EXC("IndexError"), m)
      [] a.t = "list" /\ ~IsIndex(i) -> R(EXC("TypeError"), m)
      [] a.t \in {"int", "bool", "float", "None", "str", "node"} -> R(EXC("TypeError"), m)

ArrayAccess_eval(n, m) ==
    Then(Eval(n.array, m), LAMBDA a :
    Then(Eval(n.index, a.m), LAMBDA i :
    R(Subscript(a.res, i.res, i.m.heap), i.m)))

\* Python evaluates the right-hand side, then the target, then the index
ArrayAssign_eval(n, m) ==
    Then(Eval(n.value, m), LAMBDA v :
    Then(Eval(n.array, v.m), LAMBDA a :
    Then(Eval(n.index, a.m), LAMBDA i :
    StoreSubscript(a.res, i.res, v.res, i.m))))

\* Assignment_eval binding a copy of a list value instead of the list
Assignment_copy(n, r) ==
    IF r.res.t = "list"
    THEN R(NONE, Identifier_assign(n.identifier, REF(Len(r.m.heap) + 1),
                                   [r.m EXCEPT !.heap = Append(@, @[r.res.a])]))
    ELSE R(NONE, Identifier_assign(n.identifier, r.res, r.m))

Assignment_eval_copies(n, m) ==
    IF n.identifier.is_function THEN R(NONE, Identifier_assign(n.identifier, Object(n.val), m))
    ELSE Then(Eval(n.val, m), LAMBDA r : Assignment_copy(n, r))

Assignment_eval(n, m) ==
    IF n.identifier.is_function THEN R(NONE, Identifier_assign(n.identifier, Object(n.val), m))
    ELSE Then(Eval(n.val, m), LAMBDA r : R(NONE, Identifier_assign(n.identifier, r.res, r.m)))

\* except TypeError: raise InterpreterRuntimeError(...)
Wrapped(v) == IF v = EXC("TypeError") THEN EXC("InterpreterRuntimeError") ELSE v

\* try: return op(left, right) except TypeError: ...
BinaryOperation_try(o) == R(Wrapped(o.res), o.m)

BinaryOperation_eval(n, m) ==
    Then(Eval(n.left, m), LAMBDA l :
    Then(Eval(n.right, l.m), LAMBDA r :
    BinaryOperation_try(Operate(n.op, l.res, r.res, r.m))))

\* CompoundOperation_assign returning the new value, as an expression would
CompoundOperation_assign_yields(n, v, m) ==
    IF IsExc(v) THEN R(Wrapped(v), m)
    ELSE R(v, Identifier_assign(n.identifier, v, m))

\* self.identifier.assign(op(l, r)), or the TypeError of op(l, r) wrapped
CompoundOperation_assign(n, v, m) ==
    IF IsExc(v) THEN R(Wrapped(v), m)
    ELSE R(NONE, Identifier_assign(n.identifier, v, m))

\* try: self.identifier.assign(op(l, r)) except TypeError: ...
CompoundOperation_try(n, o) == CompoundOperation_assign(n, o.res, o.m)

CompoundOperation_eval(n, m) ==
    Then(Identifier_eval(n.identifier, m), LAMBDA l :
    Then(Eval(n.modifier, l.m), LAMBDA r :
    CompoundOperation_try(n, OperateInplace(n.operation, l.res, r.res, r.m))))

UnaryOperation_eval(n, m) ==
    Then(Eval(n.expr, m), LAMBDA r : R(OperateUnary(n.operation, r.res, r.m.heap), r.m))

\* If_eval without its return statements: the branch is evaluated and its
\* result dropped
If_dropped(r) == IF IsExc(r.res) THEN r ELSE R(NONE, r.m)

If_eval_dropsResult(n, m) ==
    Then(Eval(n.condition, m), LAMBDA c :
    IF Truthy(c.res, c.m.heap) THEN If_dropped(Eval(n.truepart, c.m))
    ELSE IF n.elsepart.kind # "NoneType" THEN If_dropped(Eval(n.elsepart, c.m))
    ELSE R(NONE, c.m))

If_eval(n, m) ==
    Then(Eval(n.condition, m), LAMBDA c :
    IF Truthy(c.res, c.m.heap) THEN Eval(n.truepart, c.m)
    ELSE IF n.elsepart.kind # "NoneType" THEN Eval(n.elsepart, c.m)
    ELSE R(NONE, c.m))

\* For_body returning the ExitStatement of the body instead of breaking
For_body_propagates(n, i, stop, step, b) ==
    IF IsExc(b.res) \/ IsExit(b.res) THEN b
    ELSE For_loop(n, i + step, stop, step, b.m)

\* if isinstance(self.body.eval(), ExitStatement): break
For_body(n, i, stop, step, b) ==
    IF IsExc(b.res) THEN b
    ELSE IF IsExit(b.res) THEN R(NONE, b.m)
    ELSE For_loop(n, i + step, stop, step, b.m)

\* the iterations of range(i, stop, step) that are left
For_loop(n, i, stop, step, m) ==
    IF (step > 0 /\ i >= stop) \/ (step < 0 /\ i <= stop) THEN R(NONE, m)
    ELSE For_body(n, i, stop, step, Eval(n.body, Identifier_assign(n.variable, INT(i), m)))

For_eval(n, m) ==
    Then(Eval(n.start, m), LAMBDA s :
    Then(Eval(n.end, s.m), LAMBDA e :
    IF ~(IsNum(s.res) /\ IsNum(e.res)) THEN R(EXC("TypeError"), e.m)
    ELSE For_loop(n, NumVal(s.res), 1 + NumVal(e.res), IF n.asc THEN 1 ELSE -1, e.m)))

\* if isinstance(self.body.eval(), ExitStatement): break
While_body(n, b) ==
    IF IsExc(b.res) THEN b
    ELSE IF IsExit(b.res) THEN R(NONE, b.m)
    ELSE While_eval(n, b.m)

While_eval(n, m) ==
    Then(Eval(n.condition, m), LAMBDA c :
    IF ~Truthy(c.res, c.m.heap) THEN R(NONE, c.m)
    ELSE While_body(n, Eval(n.body, c.m)))

\* the texts of the items, sep between them
RECURSIVE Concat(_, _, _)
Concat(items, sep, heap) ==
    IF items = <<>> THEN ""
    ELSE IF Len(items) = 1 THEN StrOf(items[1], heap)
    ELSE StrOf(Head(items), heap) \o sep \o Concat(Tail(items), sep, heap)

\* print(*items, end='', sep=''); when items.eval() is an ExitStatement the
\* unpacking fails, its __iter__ returns a list and not an iterator
PrintStatement_eval(n, m) ==
    Then(InstructionList_eval(n.items, m), LAMBDA r :
    IF IsExit(r.res) THEN R(EXC("TypeError"), r.m)
    ELSE R(NONE, [r.m EXCEPT !.out = @ \o Concat(r.m.heap[r.res.a], "", r.m.heap)]))

\* if isinstance(ret, ReturnStatement): return ret.eval()   ...   return None
Function_return(b) ==
    IF b.res.t = "node" /\ b.res.node.kind = "ReturnStatement"
    THEN ReturnStatement_eval(b.res.node, Log(b.m, "return"))
    ELSE R(NONE, b.m)

\* the try block: ret = self.body.eval(); ...
Function_try(fn, m) == Then(InstructionList_eval(fn.body, m), LAMBDA b : Function_return(b))

\* for k, v in args.items(): symbols.setsym(k, v)
RECURSIVE BindArgs(_, _)
BindArgs(args, tb) ==
    IF args = <<>> THEN tb
    ELSE BindArgs(Tail(args), setsym(tb, Head(args)[1], Head(args)[2]))

\* Function_finally without try/finally: set_local(False) is skipped when
\* the body raises
Function_noFinally(r) ==
    IF IsExc(r.res) THEN R(r.res, [Log(r.m, "exit") EXCEPT !.depth = @ - 1])
    ELSE R(r.res, [Log([r.m EXCEPT !.table = set_local(@, FALSE)], "exit") EXCEPT !.depth = @ - 1])

\* finally: symbols.set_local(False), whether r is a value or an exception
Function_finally(r) ==
    R(r.res, [Log([r.m EXCEPT !.table = set_local(@, FALSE)], "exit") EXCEPT !.depth = @ - 1])

\* Function_eval binding the arguments before it enters local mode
Function_eval_bindsFirst(fn, args, m) ==
    Function_finally(Function_try(fn, [m EXCEPT !.table = set_local(BindArgs(args, @), TRUE), !.depth = @ + 1]))

Function_eval(fn, args, m) ==
    Function_finally(Function_try(fn, [m EXCEPT !.table = BindArgs(args, set_local(@, TRUE)), !.depth = @ + 1]))

\* for p, v in zip(func.params, self.params): args[p.name] = full_eval(v)
eval_udf_args(ps, vs, i, args, m) ==
    IF i > Len(ps) \/ i > Len(vs) THEN R(ARGS(args), m)
    ELSE Then(full_eval(vs[i], m), LAMBDA r :
         eval_udf_args(ps, vs, i + 1, Append(args, <<ps[i].name, r.res>>), r.m))

\* func.params of a callee that is not a Function: values and the nodes
\* without that attribute raise AttributeError
FunctionCall_eval_udf(n, m) ==
    Then(Eval(n.name, m), LAMBDA func :
    CASE func.res.t = "node" /\ func.res.node.kind = "Function" ->
            Then(eval_udf_args(func.res.node.params.children, n.params.children, 1, <<>>, func.m), LAMBDA a :
            Function_eval(func.res.node, a.res.v, a.m))
      [] func.res.t # "node" -> R(EXC("AttributeError"), func.m)
      [] func.res.t = "node" /\ func.res.node.kind \notin {"Function", "FunctionCall"} ->
            R(EXC("AttributeError"), func.m))

\* the host callables wrapped by the BuiltInFunction nodes of the programs:
\*   print                     the built-in, writing its arguments and a newline
\*   count = lambda *a: len(a)
\*   add = lambda a, c: a + c
\*   append = lambda a, v: a.append(v)
HostFunctions == {"print", "count", "add", "append"}

\* return self.func(*args)
BuiltInFunction_eval(fn, args, m) ==
    CASE fn.func = "print" -> R(NONE, [m EXCEPT !.out = @ \o Concat(args, " ", m.heap) \o "\n"])
      [] fn.func = "count" -> R(INT(Len(args)), m)
      [] fn.func = "add" ->
            IF Len(args) # 2 THEN R(EXC("TypeError"), m)
            ELSE Operate("+", args[1], args[2], m)
      [] fn.func = "append" ->
            IF Len(args) # 2 THEN R(EXC("TypeError"), m)
            ELSE IF args[1].t = "list" THEN R(NONE, [m EXCEPT !.heap[args[1].a] = Append(@, args[2])])
            ELSE R(EXC("AttributeError"), m)

\* for p in self.params: args.append(full_eval(p))
eval_builtin_args(vs, i, args, m) ==
    IF i > Len(vs) THEN R(ARGS(args), m)
    ELSE Then(full_eval(vs[i], m), LAMBDA r : eval_builtin_args(vs, i + 1, Append(args, r.res), r.m))

FunctionCall_eval_builtin_func(n, m) ==
    Then(Eval(n.name, m), LAMBDA func :
    Then(eval_builtin_args(n.params.children, 1, <<>>, func.m), LAMBDA a :
    BuiltInFunction_eval(func.res.node, a.res.v, a.m)))

\* if isinstance(self.name.eval(), BuiltInFunction): ... else the udf path
FunctionCall_eval(n, m) ==
    Then(Eval(n.name, m), LAMBDA f :
    IF f.res.t = "node" /\ f.res.node.kind = "BuiltInFunction"
    THEN FunctionCall_eval_builtin_func(n, f.m)
    ELSE FunctionCall_eval_udf(n, f.m))

\* Function.eval and BuiltInFunction.eval take the arguments of a call:
\* eval() without them is a TypeError
Uncalled_eval(n, m) == R(EXC("TypeError"), m)

Eval(n, m) ==
    CASE n.kind = "InstructionList" -> InstructionList_eval(n, m)
      [] n.kind = "ExitStatement" -> ExitStatement_eval(n, m)
      [] n.kind = "ReturnStatement" -> ReturnStatement_eval(n, m)
      [] n.kind = "Primitive" -> Primitive_eval(n, m)
      [] n.kind = "Array" -> Array_eval(n, m)
      [] n.kind = "ArrayAccess" -> ArrayAccess_eval(n, m)
      [] n.kind = "ArrayAssign" -> ArrayAssign_eval(n, m)
      [] n.kind = "Identifier" -> Identifier_eval(n, m)
      [] n.kind = "Assignment" -> Assignment_eval(n, m)
      [] n.kind = "BinaryOperation" -> BinaryOperation_eval(n, m)
      [] n.kind = "CompoundOperation" -> CompoundOperation_eval(n, m)
      [] n.kind = "UnaryOperation" -> UnaryOperation_eval(n, m)
      [] n.kind = "If" -> If_eval(n, m)
      [] n.kind = "For" -> For_eval(n, m)
      [] n.kind = "While" -> While_eval(n, m)
      [] n.kind = "PrintStatement" -> PrintStatement_eval(n, m)
      [] n.kind = "FunctionCall" -> FunctionCall_eval(n, m)
      [] n.kind \in {"Function", "BuiltInFunction"} -> Uncalled_eval(n, m)
      [] n.kind = "NoneType" -> R(EXC("AttributeError"), m)

(***************************************************************************)
(* The programs evaluated: families of instruction sequences, each built   *)
(* from a record of parameters drawn from the bounds.                      *)
(***************************************************************************)
Lit(n) == Primitive(INT(n))
Text(s) == Primitive(STR(s))
Var(x) == Identifier(x)
Block(members) == InstructionList(members)
Show(items) == PrintStatement(Block(items))
Define(name, params, body) == Assignment(FuncIdentifier(name), Function(Block(params), Block(body)))
Call(name, args) == FunctionCall(FuncIdentifier(name), Block(args))

Ints == (-MaxInt)..MaxInt
ParamNames == [i \in 1..(MaxParams + 1) |-> <<"p", "q", "r", "s">>[i]]

\* a counting loop whose body counts its evaluations and shows the variable
ForProgram(in) ==
    Block(<<Assignment(Var("c"), Lit(0)),
            For(Var("i"), Lit(in.start), Lit(in.end), in.asc,
                Block(<<CompoundOperation(Var("c"), Lit(1), "+="), Show(<<Var("i"), Text(",")>>)>>)),
            Var("c")>>)

ForInputs == [fam : {"for"}, start : Ints, end : Ints, asc : BOOLEAN]

\* a block of members that show their own position, return or exit; run as
\* the body of f(p) or as the program itself
SeqMember(what, i) ==
    CASE what = "show" -> Show(<<Lit(i)>>)
      [] what = "return" -> ReturnStatement(Lit(10 + i))
      [] what = "exit" -> ExitStatement
      [] what = "ifreturn" -> If(Var("p"), Block(<<ReturnStatement(Lit(20 + i))>>), NoElse)

SeqBody(in) == [i \in 1..Len(in.body) |-> SeqMember(in.body[i], i)]

SeqProgram(in) ==
    IF in.ctx = "function"
    THEN Block(<<Define("f", <<Var("p")>>, SeqBody(in)), Call("f", <<Lit(in.p)>>)>>)
    ELSE Block(<<Assignment(Var("p"), Lit(in.p))>> \o SeqBody(in))

SeqMembers == {"show", "return", "exit", "ifreturn"}
SeqBodies == UNION {[1..n -> SeqMembers] : n \in 1..MaxLen}
SeqInputs == [fam : {"seq"}, ctx : {"function", "top"}, p : {0, 1}, body : SeqBodies]

\* f(): a loop whose body shows the iteration and returns 7 in iteration k,
\* then a member after the loop, then (tail) a return of 9
LoopBody(in, v) ==
    Block(<<Show(<<Var(v)>>),
            If(BinaryOperation(Var(v), Lit(in.k), "=="), Block(<<ReturnStatement(Lit(7))>>), NoElse)>>)

LoopMember(in) ==
    IF in.loop = "for"
    THEN <<For(Var("i"), Lit(1), Lit(in.n), TRUE, LoopBody(in, "i"))>>
    ELSE <<Assignment(Var("j"), Lit(0)),
           While(BinaryOperation(Var("j"), Lit(in.n), "<"),
                 Block(<<CompoundOperation(Var("j"), Lit(1), "+=")>> \o LoopBody(in, "j").children))>>

LoopProgram(in) ==
    Block(<<Define("f", <<>>, LoopMember(in) \o <<Show(<<Text("after")>>)>>
                              \o (IF in.tail THEN <<ReturnStatement(Lit(9))>> ELSE <<>>)),
            Call("f", <<>>)>>)

LoopInputs == [fam : {"loop"}, loop : {"for", "while"}, n : 0..(MaxInt + 1), k : 1..(MaxInt + 1), tail : BOOLEAN]

\* f(p): a conditional with returns in its branches, then a member after it
CondThen(in) == Block(<<Show(<<Text("t")>>), ReturnStatement(BinaryOperation(Var("p"), Lit(10), "+"))>>)
CondTest(n) == BinaryOperation(Var("p"), Lit(n), "==")

CondIf(in) ==
    CASE in.form = "then" -> If(CondTest(1), CondThen(in), NoElse)
      [] in.form = "else" -> If(CondTest(1), CondThen(in), Block(<<ReturnStatement(Lit(20))>>))
      [] in.form = "elif" -> If(CondTest(1), CondThen(in), If(CondTest(2), Block(<<ReturnStatement(Lit(20))>>), NoElse))
      [] in.form = "elifelse" -> If(CondTest(1), CondThen(in), If(CondTest(2), Block(<<ReturnStatement(Lit(20))>>), Block(<<ReturnStatement(Lit(30))>>)))

CondProgram(in) ==
    Block(<<Define("f", <<Var("p")>>, <<CondIf(in), Show(<<Text("after")>>)>>),
            Call("f", <<Lit(in.p)>>)>>)

CondInputs == [fam : {"cond"}, form : {"then", "else", "elif", "elifelse"}, p : 0..(MaxInt + 1)]

\* f declared with n parameters and called with k arguments; `warm` makes a
\* call with every parameter bound beforehand.  Argument i is x + i; the
\* arguments past the declared parameters name an unbound variable.
ArityArg(in, i) == IF i <= in.n THEN BinaryOperation(Var("x"), Lit(i), "+") ELSE Var("unbound")
ArityParams(in) == [i \in 1..in.n |-> Var(ParamNames[i])]

ArityProgram(in) ==
    Block(<<Assignment(Var("x"), Lit(10)),
            Define("f", ArityParams(in), <<Show(<<Text("b")>>)>>)>>
          \o (IF in.warm THEN <<Call("f", [i \in 1..in.n |-> Lit(-i)])>> ELSE <<>>)
          \o <<Call("f", [i \in 1..in.k |-> ArityArg(in, i)])>>)

ArityInputs == [fam : {"arity"}, n : 0..MaxParams, k : 0..(MaxParams + 1), warm : BOOLEAN]

\* f(p) whose body ends normally, returns, or raises, directly or in a
\* nested call of g
ExitBody(how) ==
    CASE how = "normal" -> <<Assignment(Var("y"), Lit(1))>>
      [] how = "return" -> <<ReturnStatement(Var("p"))>>
      [] how = "raise" -> <<Assignment(Var("y"), BinaryOperation(Lit(1), Text("a"), "+")), Show(<<Text("x")>>)>>
      [] how = "raisereturn" -> <<ReturnStatement(BinaryOperation(Var("p"), Text("a"), "+"))>>
      [] how = "unbound" -> <<ReturnStatement(Var("unbound"))>>

ExitProgram(in) ==
    Block(<<Define("g", <<Var("p")>>, ExitBody(in.how)),
            Define("f", <<Var("p")>>,
                   IF in.nested THEN <<Assignment(Var("y"), Call("g", <<Var("p")>>)), ReturnStatement(Var("y"))>>
                   ELSE ExitBody(in.how)),
            Call("f", <<Lit(in.p)>>)>>)

ExitInputs == [fam : {"exit"}, how : {"normal", "return", "raise", "raisereturn", "unbound"}, nested : BOOLEAN, p : Ints]

\* an array literal of elements that are literals, nested literals or calls
\* of a function that does not return
ArrElement(what, i) ==
    CASE what = "lit" -> Lit(i)
      [] what = "sum" -> BinaryOperation(Lit(i), Lit(10), "+")
      [] what = "call" -> Call("f", <<>>)

ArrProgram(in) ==
    Block(<<Define("f", <<>>, <<Show(<<Text("f")>>)>>),
            Array(Block([i \in 1..Len(in.elems) |-> ArrElement(in.elems[i], i)]))>>)

ArrElements == {"lit", "sum", "call"}
ArrInputs == [fam : {"array"}, elems : UNION {[1..n -> ArrElements] : n \in 0..MaxLen}]

\* a = [100 .. 100+n-1]; b = a (or a second literal); via[idx] = val; then
\* read via[idx] and every slot through a and through b
AliasLiteral(in) == Array(Block([i \in 1..in.n |-> Lit(99 + i)]))

AliasProgram(in) ==
    Block(<<Assignment(Var("a"), AliasLiteral(in)),
            Assignment(Var("b"), IF in.alias THEN Var("a") ELSE AliasLiteral(in)),
            ArrayAssign(Var(in.via), Lit(in.idx), Lit(in.val)),
            ArrayAccess(Var(in.via), Lit(in.idx))>>
          \o [j \in 1..in.n |-> ArrayAccess(Var("a"), Lit(j - 1))]
          \o [j \in 1..in.n |-> ArrayAccess(Var("b"), Lit(j - 1))])

AliasInputs ==
    {in \in [fam : {"alias"}, n : 1..MaxLen, idx : (-MaxLen)..(MaxLen - 1), val : {0, 7},
             alias : BOOLEAN, via : {"a", "b"}] : -in.n <= in.idx /\ in.idx < in.n}

\* x = x0; x OP= e; x   (at the top level, or in the body of f)
CompoundOps == {"+=", "-=", "/=", "*=", "%=", "**="}

CompoundProgram(in) ==
    IF in.ctx = "top"
    THEN Block(<<Assignment(Var("x"), Lit(in.x)),
                 CompoundOperation(Var("x"), Lit(in.e), in.op),
                 Var("x")>>)
    ELSE Block(<<Assignment(Var("x"), Lit(in.x)),
                 Define("f", <<>>, <<CompoundOperation(Var("x"), Lit(in.e), in.op), ReturnStatement(Var("x"))>>),
                 Call("f", <<>>)>>)

CompoundInputs == [fam : {"compound"}, ctx : {"top", "function"}, x : Ints \cup {10}, e : Ints \cup {5}, op : CompoundOps]

\* f calls g (or itself) and goes on
NestProgram(in) ==
    Block(<<Define("g", <<>>, <<ReturnStatement(Lit(1))>>),
            Define("f", <<Var("p")>>,
                   (IF in.inner = "none" THEN <<>>
                    ELSE IF in.inner = "g" THEN <<Assignment(Var("y"), Call("g", <<>>))>>
                    ELSE <<If(BinaryOperation(Var("p"), Lit(0), ">"),
                              Block(<<Call("f", <<BinaryOperation(Var("p"), Lit(1), "-")>>)>>), NoElse)>>)
                   \o <<Assignment(Var("z"), Lit(2)), ReturnStatement(Lit(3))>>),
            Call("f", <<Lit(in.p)>>)>>)

NestInputs == [fam : {"nest"}, inner : {"none", "g", "f"}, p : 0..MaxInt]

\* a call of the host function bound to b (or of the list a, which is not
\* callable) with arguments of each kind, then a call of h, whose return
\* statement holds an instruction sequence and not an expression, and a call
\* of k, whose return statement and whose argument hold None
HostArg(what, i) ==
    CASE what = "int" -> Lit(i)
      [] what = "str" -> Text("s")
      [] what = "none" -> Primitive(NONE)
      [] what = "arr" -> Var("a")

HostProgram(in) ==
    Block(<<Assignment(FuncIdentifier("b"), BuiltInFunction(in.func)),
            Assignment(Var("a"), Array(Block(<<Lit(0)>>))),
            Define("h", <<>>, <<ReturnStatement(Block(<<Lit(1), Show(<<Text("x")>>)>>))>>),
            FunctionCall(IF in.callee = "b" THEN FuncIdentifier("b") ELSE Var("a"),
                         Block([i \in 1..Len(in.args) |-> HostArg(in.args[i], i)])),
            Call("h", <<>>),
            Define("k", <<Var("p")>>, <<ReturnStatement(NoElse)>>),
            FunctionCall(FuncIdentifier("k"), Block(<<NoElse>>)),
            Var("a")>>)

SeqsUpTo(S, n) == UNION {[1..k -> S] : k \in 0..n}

HostInputs ==
    [fam : {"host"}, func : {"print", "count"}, callee : {"b"},
     args : SeqsUpTo({"int", "str", "none", "arr"}, MaxParams)]
    \cup [fam : {"host"}, func : {"add"}, callee : {"b"},
          args : SeqsUpTo({"int", "str", "none"}, MaxParams + 1)]
    \cup [fam : {"host"}, func : {"append"}, callee : {"b", "a"},
          args : SeqsUpTo({"arr", "int", "none"}, MaxParams)]

\* a format string applied with % or %= to a value of each kind
FmtStrings == {"%s", "n=%d", "100%%", "plain", "%s%s", "%"}

FmtArg(what) ==
    CASE what = "int" -> Lit(MaxInt)
      [] what = "str" -> Text("s")
      [] what = "none" -> Primitive(NONE)
      [] what = "bool" -> Primitive(BOOL(TRUE))
      [] what = "arr" -> Array(Block(<<Lit(1), Primitive(NONE)>>))

FmtProgram(in) ==
    Block(<<Assignment(Var("x"), Text(in.fmt)),
            IF in.via = "binary"
            THEN Show(<<BinaryOperation(Var("x"), FmtArg(in.arg), "%")>>)
            ELSE CompoundOperation(Var("x"), FmtArg(in.arg), "%="),
            Var("x")>>)

FmtInputs ==
    [fam : {"format"}, fmt : FmtStrings, arg : {"int", "str", "none", "bool", "arr"},
     via : {"binary", "compound"}]

\* an operator applied to the list x, which y names too, and to an operand
\* of each kind: in place (x OP= operand) or binary (z = x OP operand)
ListOperand(what) ==
    CASE what = "str" -> Text("ab")
      [] what = "empty" -> Text("")
      [] what = "made" -> If(Lit(1), Block(<<Lit(MaxInt)>>), NoElse)
      [] what = "equal" -> If(Lit(1), Block(<<Lit(1)>>), NoElse)
      [] what = "int" -> Lit(MaxInt)
      [] what = "none" -> Primitive(NONE)
      [] what = "self" -> Var("x")

ListProgram(in) ==
    Block(<<Assignment(Var("x"), Array(Block(<<Lit(1)>>))),
            Assignment(Var("y"), Var("x")),
            Assignment(Var("z"), Lit(0)),
            IF in.op \in {"+=", "*="}
            THEN CompoundOperation(Var("x"), ListOperand(in.operand), in.op)
            ELSE Assignment(Var("z"), BinaryOperation(Var("x"), ListOperand(in.operand), in.op)),
            Var("z"),
            Show(<<Var("x"), Var("y")>>)>>)

ListInputs ==
    [fam : {"list"}, op : {"+=", "*=", "+", "*", "==", "!=", "<", ">="},
     operand : {"str", "empty", "made", "equal", "int", "none", "self"}]

Programs(in) ==
    CASE in.fam = "for" -> ForProgram(in)
      [] in.fam = "seq" -> SeqProgram(in)
      [] in.fam = "loop" -> LoopProgram(in)
      [] in.fam = "cond" -> CondProgram(in)
      [] in.fam = "arity" -> ArityProgram(in)
      [] in.fam = "exit" -> ExitProgram(in)
      [] in.fam = "array" -> ArrProgram(in)
      [] in.fam = "alias" -> AliasProgram(in)
      [] in.fam = "compound" -> CompoundProgram(in)
      [] in.fam = "nest" -> NestProgram(in)
      [] in.fam = "host" -> HostProgram(in)
      [] in.fam = "format" -> FmtProgram(in)
      [] in.fam = "list" -> ListProgram(in)

VARIABLES input, pc, ret, status, result, table, heap, out, trace

vars == <<input, pc, ret, status, result, table, heap, out, trace>>

PENDING == [t |-> "pending"]

\* the program under evaluation
prog == Programs(input)

Init ==
    /\ \/ input \in ForInputs
       \/ input \in SeqInputs
       \/ input \in LoopInputs
       \/ input \in CondInputs
       \/ input \in ArityInputs
       \/ input \in ExitInputs
       \/ input \in ArrInputs
       \/ input \in AliasInputs
       \/ input \in CompoundInputs
       \/ input \in NestInputs
       \/ input \in HostInputs
       \/ input \in FmtInputs
       \/ input \in ListInputs
    /\ pc = 1
    /\ ret = <<>>
    /\ status = "running"
    /\ result = PENDING
    /\ table = EmptyTable
    /\ heap = <<>>
    /\ out = ""
    /\ trace = <<>>

\* the machine before the next member of the program runs
Machine == [table |-> table, heap |-> heap, out |-> out, depth |-> 0, trace |-> <<>>]

\* the outcome s of the iteration becomes the state of the evaluation
Taken(s) ==
    /\ table' = s.m.table
    /\ heap' = s.m.heap
    /\ out' = s.m.out
    /\ trace' = s.m.trace
    /\ IF s.stop
       THEN /\ status' = IF IsExc(s.res) THEN "raised" ELSE "returned"
            /\ result' = s.res
            /\ UNCHANGED <<ret, pc>>
       ELSE /\ ret' = s.res
            /\ pc' = pc + 1
            /\ UNCHANGED <<status, result>>

\* the embedder's InstructionList.eval of the program is at a member of
\* class `kind`
At(kind) ==
    /\ status = "running"
    /\ pc <= Len(prog.children)
    /\ prog.children[pc].kind = kind

\* the iteration of the loop of InstructionList.eval on the member at pc
Iterate == Taken(InstructionList_step(prog.children[pc], ret, Machine))

EvalAssignment ==
    /\ At("Assignment")
    /\ Iterate
    /\ UNCHANGED input

EvalCompoundOperation ==
    /\ At("CompoundOperation")
    /\ Iterate
    /\ UNCHANGED input

EvalArray ==
    /\ At("Array")
    /\ Iterate
    /\ UNCHANGED input

EvalArrayAssign ==
    /\ At("ArrayAssign")
    /\ Iterate
    /\ UNCHANGED input

EvalArrayAccess ==
    /\ At("ArrayAccess")
    /\ Iterate
    /\ UNCHANGED input

EvalIdentifier ==
    /\ At("Identifier")
    /\ Iterate
    /\ UNCHANGED input

EvalIf ==
    /\ At("If")
    /\ Iterate
    /\ UNCHANGED input

EvalFor ==
    /\ At("For")
    /\ Iterate
    /\ UNCHANGED input

EvalPrintStatement ==
    /\ At("PrintStatement")
    /\ Iterate
    /\ UNCHANGED input

EvalFunctionCall ==
    /\ At("FunctionCall")
    /\ Iterate
    /\ UNCHANGED input

EvalExitStatement ==
    /\ At("ExitStatement")
    /\ Iterate
    /\ UNCHANGED input

EvalReturnStatement ==
    /\ At("ReturnStatement")
    /\ Iterate
    /\ UNCHANGED input

\* return ret
ReturnList ==
    /\ status = "running"
    /\ pc > Len(prog.children)
    /\ status' = "done"
    /\ result' = REF(Len(heap) + 1)
    /\ heap' = Append(heap, ret)
    /\ UNCHANGED <<input, pc, ret, table, out, trace>>

Next ==
    \/ EvalAssignment
    \/ EvalCompoundOperation
    \/ EvalArray
    \/ EvalArrayAssign
    \/ EvalArrayAccess
    \/ EvalIdentifier
    \/ EvalIf
    \/ EvalFor
    \/ EvalPrintStatement
    \/ EvalFunctionCall
    \/ EvalExitStatement
    \/ EvalReturnStatement
    \/ ReturnList

Spec == Init /\ [][Next]_vars

Finished == status \in {"done", "returned", "raised"}

(***************************************************************************)
(* The claims.                                                             *)
(***************************************************************************)
Min(a, b) == IF a < b THEN a ELSE b

\* where a block of the "seq" family stops: the first member that is a
\* return or an exit, or a conditional return whose condition p holds
Stops(what, p) == what \in {"return", "exit"} \/ (what = "ifreturn" /\ p # 0)
FirstStop(body, p) ==
    IF \E i \in 1..Len(body) : Stops(body[i], p)
    THEN CHOOSE i \in 1..Len(body) : Stops(body[i], p) /\ \A j \in 1..(i - 1) : ~Stops(body[j], p)
    ELSE Len(body) + 1

\* the positions shown by the members before position k
RECURSIVE ShownBefore(_, _, _)
ShownBefore(body, i, k) ==
    IF i >= k THEN ""
    ELSE (IF body[i] = "show" THEN ToText(INT(i)) ELSE "") \o ShownBefore(body, i + 1, k)

\* C1: InstructionList.eval evaluates its members in order and stops at the
\* first member that is an early-exit signal or evaluates to one; the signal
\* is what it returns, and no later member is evaluated (nothing a later
\* member shows is written).
C1_StopsAtFirstExit ==
    (Finished /\ input.fam = "seq") =>
        LET k == FirstStop(input.body, input.p)
            stopped == k <= Len(input.body)
            carried == IF input.body[k] = "return" THEN 10 + k ELSE 20 + k
        IN /\ out = ShownBefore(input.body, 1, k)
           /\ input.ctx = "function" =>
                 /\ status = "done"
                 /\ ret = IF stopped /\ input.body[k] # "exit" THEN <<INT(carried)>> ELSE <<>>
           /\ input.ctx = "top" =>
                 /\ status = IF stopped THEN "returned" ELSE "done"
                 /\ stopped => pc = k + 1
                 /\ stopped =>
                       result = NODE(IF input.body[k] = "exit" THEN ExitStatement
                                     ELSE ReturnStatement(Lit(carried)))

C1_Witness ==
    /\ Finished
    /\ input.fam = "seq"
    /\ input.ctx = "function"
    /\ input.body = <<"return", "show">>
    /\ out = ""
    /\ ret = <<INT(11)>>

RECURSIVE Ascending(_, _)
Ascending(lo, hi) ==
    IF lo > hi THEN "" ELSE ToText(INT(lo)) \o "," \o Ascending(lo + 1, hi)

RECURSIVE Descending(_, _)
Descending(hi, lo) ==
    IF lo > hi THEN "" ELSE ToText(INT(hi)) \o "," \o Descending(hi - 1, lo)

\* C2: a counting loop from start to end evaluates its body once for every
\* integer of the inclusive range, ascending (start <= end) and descending
\* (start >= end, asc = false) alike.
C2_InclusiveRange ==
    (status = "done" /\ input.fam = "for") =>
        /\ (input.asc /\ input.start <= input.end) =>
              /\ ret = <<INT(input.end - input.start + 1)>>
              /\ out = Ascending(input.start, input.end)
        /\ (~input.asc /\ input.start >= input.end) =>
              /\ ret = <<INT(input.start - input.end + 1)>>
              /\ out = Descending(input.start, input.end)

\* C3: whenever a call of a user-defined function has completed (normally,
\* by a return, or by an exception raised in the body or in the return
\* expression) the scope store is in non-local mode.
C3_NonLocalAfterCall ==
    /\ \A i \in 1..Len(trace) : trace[i].ev = "exit" => ~trace[i].local
    /\ ~table.is_local

C3_Witness ==
    /\ status = "raised"
    /\ result = EXC("InterpreterRuntimeError")
    /\ input.fam = "exit"
    /\ input.how = "raisereturn"
    /\ input.nested
    /\ Len(SelectSeq(trace, LAMBDA e : e.ev = "exit")) = 2

\* C4: a return reached in a branch of a conditional that is a member of the
\* function body gives the call its value, and the members after the
\* conditional are not evaluated; with no return reached the call yields
\* no value.
C4_ReturnInConditional ==
    (Finished /\ input.fam = "cond") =>
        LET first == input.p = 1
            second == input.p = 2 /\ input.form \in {"elif", "elifelse"}
            last == input.p # 1 /\ (input.form = "else" \/ (input.form = "elifelse" /\ input.p # 2))
        IN /\ status = "done"
           /\ first => (ret = <<INT(input.p + 10)>> /\ out = "t")
           /\ (second /\ ~first) => (ret = <<INT(20)>> /\ out = "")
           /\ (last /\ input.form = "else") => (ret = <<INT(20)>> /\ out = "")
           /\ (last /\ input.form = "elifelse") => (ret = <<INT(30)>> /\ out = "")
           /\ ~(first \/ second \/ last) => (ret = <<>> /\ out = "after")

C4_Witness ==
    /\ Finished
    /\ input.fam = "cond"
    /\ input.form = "elifelse"
    /\ input.p = 2
    /\ ret = <<INT(20)>>
    /\ out = ""

\* C5: a loop (For or While) stops iterating at the first body evaluation
\* that yields an early-exit signal and yields no value itself: the members
\* after the loop are evaluated and the call does not return the value of
\* the return inside the loop.
C5_LoopSwallowsExit ==
    (Finished /\ input.fam = "loop") =>
        /\ status = "done"
        /\ out = ShownBefore([i \in 1..input.n |-> "show"], 1, Min(input.k, input.n) + 1) \o "after"
        /\ ret = IF input.tail THEN <<INT(9)>> ELSE <<>>

C5_Witness ==
    /\ Finished
    /\ input.fam = "loop"
    /\ input.loop = "while"
    /\ input.k < input.n
    /\ ~input.tail
    /\ out = ShownBefore([i \in 1..input.n |-> "show"], 1, input.k + 1) \o "after"
    /\ ret = <<>>

\* C6: a call with k arguments of a function with n parameters binds the
\* first min(k, n) parameters to the values of the arguments at the same
\* positions, evaluates no other argument, leaves the bindings of the other
\* parameters as they were and raises no error.
C6_BindsCommonPrefix ==
    (Finished /\ input.fam = "arity") =>
        /\ status = "done"
        /\ out = IF input.warm THEN "bb" ELSE "b"
        /\ table.sym = [v \in {"x"} |-> INT(10)]
        /\ \A i \in 1..input.n :
              IF i <= Min(input.k, input.n)
              THEN ParamNames[i] \in DOMAIN table.loc /\ table.loc[ParamNames[i]] = INT(10 + i)
              ELSE IF input.warm
              THEN ParamNames[i] \in DOMAIN table.loc /\ table.loc[ParamNames[i]] = INT(-i)
              ELSE ParamNames[i] \notin DOMAIN table.loc

C6_Witness ==
    /\ Finished
    /\ input.fam = "arity"
    /\ input.n = 2
    /\ input.k = 1
    /\ input.warm
    /\ table.loc = [v \in {"p", "q"} |-> IF v = "p" THEN INT(11) ELSE INT(-2)]

\* the value of element i of an array literal of the "array" family
ArrValue(what, i) ==
    CASE what = "lit" -> INT(i)
      [] what = "sum" -> INT(i + 10)
      [] what = "call" -> NONE

\* C7: an array literal of n element expressions evaluates to an array of n
\* entries, the i-th being the value of the i-th element, also when that
\* value is no value.
C7_ArrayKeepsEveryElement ==
    (status = "done" /\ input.fam = "array") =>
        /\ Len(ret) = 1
        /\ ret[1].t = "list"
        /\ heap[ret[1].a] = [i \in 1..Len(input.elems) |-> ArrValue(input.elems[i], i)]

\* C8: after via[idx] = val, reading via[idx] gives val; the assignment is
\* seen through the other binding when both refer to the same array; the
\* other slots keep their values.
C8_ArrayAssignThenAccess ==
    (status = "done" /\ input.fam = "alias") =>
        LET slot == IF input.idx < 0 THEN input.idx + input.n + 1 ELSE input.idx + 1
            throughA == [j \in 1..input.n |-> ret[1 + j]]
            throughB == [j \in 1..input.n |-> ret[1 + input.n + j]]
            written == [j \in 1..input.n |-> IF j = slot THEN INT(input.val) ELSE INT(99 + j)]
        IN /\ Len(ret) = 1 + 2 * input.n
           /\ ret[1] = INT(input.val)
           /\ (IF input.via = "a" THEN throughA ELSE throughB) = written
           /\ input.alias => throughA = throughB

C8_Witness ==
    /\ status = "done"
    /\ input.fam = "alias"
    /\ input.alias
    /\ input.via = "b"
    /\ input.n = 2
    /\ input.idx = -1
    /\ input.val = 7
    /\ ret = <<INT(7), INT(100), INT(7), INT(100), INT(7)>>

\* whether v is the value Python gives x OP e, for integers x and e
IsResultOf(op, x, e, v) ==
    CASE op = "+=" -> v = INT(x + e)
      [] op = "-=" -> v = INT(x - e)
      [] op = "*=" -> v = INT(x * e)
      [] op = "/=" -> v.t = "float" /\ v.d > 0 /\ v.n * e = x * v.d
      [] op = "%=" -> /\ v.t = "int"
                      /\ \E q \in (-Abs(x) - 1)..(Abs(x) + 1) : x = q * e + v.v
                      /\ IF e > 0 THEN 0 <= v.v /\ v.v < e ELSE e < v.v /\ v.v <= 0
      [] op = "**=" -> IF e >= 0 THEN v = INT(Pow(x, e))
                       ELSE v.t = "float" /\ v.d > 0 /\ v.n * Pow(x, -e) = v.d

\* the operations Python defines: no division by zero
Defined(op, x, e) ==
    /\ op \in {"/=", "%="} => e # 0
    /\ op = "**=" => (e >= 0 \/ x # 0)

\* C9: x OP= e rebinds x to OP applied to the value of x and the value of e
\* and yields no result, so that it adds no entry to the result list of the
\* sequence it is a member of.
C9_CompoundRebinds ==
    (Finished /\ input.fam = "compound" /\ Defined(input.op, input.x, input.e)) =>
        /\ status = "done"
        /\ Len(ret) = 1
        /\ IsResultOf(input.op, input.x, input.e, ret[1])
        /\ input.ctx = "top" => table.sym["x"] = ret[1]
        /\ input.ctx = "function" => table.loc["x"] = ret[1]

C9_Witness ==
    /\ Finished
    /\ input.fam = "compound"
    /\ input.ctx = "top"
    /\ input.x = 10
    /\ input.e = 5
    /\ input.op = "+="
    /\ table.sym["x"] = INT(15)
    /\ ret = <<INT(15)>>

\* C10: every member of a function body, and its return expression, is
\* evaluated with the scope store in local mode.
C10_BodyInLocalMode ==
    \A i \in 1..Len(trace) : trace[i].ev \in {"member", "return"} => trace[i].local

====
